---------------------------- MODULE Spec2Model ----------------------------
(* Model of ros/src/mpc/src/mpc_node.cpp: main(), the MPCControllerNode     *)
(* constructor, the three subscriber callbacks, find_closest() and loop(). *)
(*                                                                         *)
(* Units.  The source computes in double; the model computes in exact       *)
(* integers.  Lengths are integers, angles are counted in quarter turns     *)
(* (so cos and sin are exact on every angle the model produces), and the    *)
(* inputs are drawn from integer sets.  size_t arithmetic keeps its width.  *)
(* polyfit, polyeval and m_controller.Solve are defined outside this file:  *)
(* the solver's return value is any pair of the output sets.  The debug     *)
(* markers (m_debug) and the timing log are left out.                       *)
EXTENDS Integers, Sequences, FiniteSets, TLC

VARIABLES
    \* compile-time configuration of the node (mpc_node.h, not in src/)
    NUM_STEPS_BACK, NUM_STEPS_POLY, STEP_POLY, POLY_DEGREE,
    X_DELTA_MIN_VALUE, CENTER_IN_DZIK, m_latency,
    \* main()
    argv, params, exit_status,
    \* MPCControllerNode members
    m_pts_x, m_pts_y, m_pts_OK,
    m_pos_x, m_pos_y, m_pos_OK,
    m_psi, m_psi_OK,
    m_speed, m_speed_OK,
    m_steer, m_throttle,
    \* what the node has published on /mpc/angle and /mpc/throttle
    \* (publisher queue size 1: the latest message, <<>> when none)
    pub_angle, pub_throttle,
    \* position of the process and the block-scope locals of loop()
    pc,
    v_lat, psi_lat, pos_x_lat, pos_y_lat,
    closest_idx, closest_pts_x, closest_pts_y,
    xvals_vec, yvals_vec,
    num_steps_OK, solver_vars

config == <<NUM_STEPS_BACK, NUM_STEPS_POLY, STEP_POLY, POLY_DEGREE,
            X_DELTA_MIN_VALUE, CENTER_IN_DZIK, m_latency>>
mainvars == <<argv, params, exit_status>>
holder == <<m_pts_x, m_pts_y, m_pts_OK, m_pos_x, m_pos_y, m_pos_OK,
            m_psi, m_psi_OK, m_speed, m_speed_OK>>
actuators == <<m_steer, m_throttle>>
published == <<pub_angle, pub_throttle>>
locals == <<v_lat, psi_lat, pos_x_lat, pos_y_lat, closest_idx,
            closest_pts_x, closest_pts_y, xvals_vec, yvals_vec,
            num_steps_OK, solver_vars>>
vars == <<config, mainvars, holder, actuators, published, pc, locals>>

----------------------------------------------------------------------------
(* Bounds of the model *)

MaxPathLen == 3
MaxStepsPoly == 4
MaxPolyDegree == 2
MaxStepsBack == 1
MaxExtraArgs == 1

(* Input sets *)

\* points a /centerline message may carry
PathPoints == {<<0, 0>>, <<1, 0>>, <<2, 1>>}
\* positions a /pf/pose/odom message may carry; the last one is farther
\* than sqrt(999999999) from every path point
Positions == {<<0, 0>>, <<1, 1>>, <<31625, 0>>}
\* unit quaternions <<w, x, y, z>> a /pf/pose/odom message may carry
Quaternions == {<<1, 0, 0, 0>>, <<0, 0, 0, 1>>}
Speeds == {0, 1}
\* the configured stride, latency and steering centre
Strides == {1, 2}
Latencies == {0, 1}
Centers == {0, 1}
\* what the solver may return as vars[0] (steering) and vars[1] (acceleration)
SteerOut == {0, 1}
AccOut == {0, 1}
\* what a read through an out-of-range index may yield
GarbageVals == {0, 1}

Paths == UNION {[1 .. n -> PathPoints] : n \in 0 .. MaxPathLen}

----------------------------------------------------------------------------
(* Arithmetic helpers *)

\* cos and sin of an angle given in quarter turns
Cos(q) == CASE q % 4 = 0 -> 1 [] q % 4 = 1 -> 0 [] q % 4 = 2 -> -1 [] OTHER -> 0
Sin(q) == CASE q % 4 = 0 -> 0 [] q % 4 = 1 -> 1 [] q % 4 = 2 -> 0 [] OTHER -> -1

\* atan2 on the axes, in quarter turns, range (-2, 2]
Atan2(y, x) == CASE y = 0 /\ x > 0 -> 0
                 [] y > 0 /\ x = 0 -> 1
                 [] y = 0 /\ x < 0 -> 2
                 [] OTHER -> -1

\* effective wheelbase, in the model's units
Lf == 1

\* width of size_t
SIZE_T_BITS == 64

RECURSIVE Pow2Mod(_, _)
\* 2^w modulo n, n > 0
Pow2Mod(w, n) == IF w = 0 THEN 1 % n ELSE (2 * Pow2Mod(w - 1, n)) % n

\* (size_t)(s) % n for an int s with |s| < 2^SIZE_T_BITS and n > 0: a negative
\* s converts to 2^SIZE_T_BITS + s before the remainder is taken
SizeTMod(s, n) == IF s >= 0 THEN s % n
                  ELSE (Pow2Mod(SIZE_T_BITS, n) + (s % n)) % n

----------------------------------------------------------------------------
(* find_closest *)

closest_dist_init == 999999999

RECURSIVE find_closest_from(_, _, _, _, _, _, _)
find_closest_from(i, idx, best, pts_x, pts_y, pos_x, pos_y) ==
    IF i >= Len(pts_x) THEN idx
    ELSE LET diff_x == pts_x[i + 1] - pos_x
             diff_y == pts_y[i + 1] - pos_y
             dist == diff_x * diff_x + diff_y * diff_y
         IN IF dist < best
            THEN find_closest_from(i + 1, i, dist, pts_x, pts_y, pos_x, pos_y)
            ELSE find_closest_from(i + 1, idx, best, pts_x, pts_y, pos_x, pos_y)

find_closest(pts_x, pts_y, pos_x, pos_y) ==
    find_closest_from(0, -1, closest_dist_init, pts_x, pts_y, pos_x, pos_y)


----------------------------------------------------------------------------
(* Configurations *)

\* every configuration within the bounds
AllConfigs == (0 .. MaxStepsBack) \X (1 .. MaxStepsPoly) \X Strides
                 \X (1 .. MaxPolyDegree) \X {1} \X Centers \X Latencies

\* the configurations the control-loop specification runs under: the longest
\* window and back shift, stride 1, degree 1, every centre and latency
LoopConfigs == {c \in AllConfigs : /\ c[1] = MaxStepsBack /\ c[2] = MaxStepsPoly
                                   /\ c[3] = 1 /\ c[4] = 1}

ConfigIs(c) ==
    /\ NUM_STEPS_BACK = c[1]
    /\ NUM_STEPS_POLY = c[2]
    /\ STEP_POLY = c[3]
    /\ POLY_DEGREE = c[4]
    /\ X_DELTA_MIN_VALUE = c[5]
    /\ CENTER_IN_DZIK = c[6]
    /\ m_latency = c[7]

----------------------------------------------------------------------------
(* main: argument vectors.  argv[0] is the program name and is left out:    *)
(* argv here is <<argv[1], ..., argv[argc-1]>> and argc = Len(argv) + 1.    *)

num_expected_args == 12

NumTokens == {"1", "x"}
DebugTokens == {"true", "false", "x"}

Argvs == UNION {{[k \in 1 .. n |-> IF k = num_expected_args - 1 THEN d ELSE b[k]] :
                    b \in [1 .. n -> NumTokens], d \in DebugTokens} :
                n \in (num_expected_args - 2) .. (num_expected_args - 1 + MaxExtraArgs)}

\* atoi / atof: the leading number of the text, 0 when there is none
atoi(tok) == IF tok = "1" THEN 1 ELSE 0
atof(tok) == IF tok = "1" THEN 1 ELSE 0

ValidArgv == [k \in 1 .. num_expected_args - 1 |->
                 IF k = num_expected_args - 1 THEN "false" ELSE "1"]

ParsedParams(a) == [k \in 1 .. num_expected_args - 1 |->
                       IF k = 1 THEN atoi(a[k])
                       ELSE IF k < num_expected_args - 1 THEN atof(a[k])
                       ELSE IF a[k] = "true" THEN 1 ELSE 0]


----------------------------------------------------------------------------
(* Initial states *)

\* block-scope locals of loop() outside an iteration
LocalsReset ==
    /\ v_lat = 0 /\ psi_lat = 0 /\ pos_x_lat = 0 /\ pos_y_lat = 0
    /\ closest_idx = 0
    /\ closest_pts_x = <<>> /\ closest_pts_y = <<>>
    /\ xvals_vec = <<>> /\ yvals_vec = <<>>
    /\ num_steps_OK = 0 /\ solver_vars = <<>>

\* the members the constructor sets; m_pts_x / m_pts_y are default-constructed
\* vectors, the pose and speed members are left uninitialised
Constructed ==
    /\ m_pts_OK = FALSE /\ m_pos_OK = FALSE
    /\ m_speed_OK = FALSE /\ m_psi_OK = FALSE
    /\ m_steer = 0 /\ m_throttle = 0
    /\ m_pts_x = <<>> /\ m_pts_y = <<>>
    /\ \E p \in Positions : m_pos_x = p[1] /\ m_pos_y = p[2]
    /\ m_psi \in {0, 2}
    /\ m_speed \in Speeds
    /\ pub_angle = <<>> /\ pub_throttle = <<>>

\* the node constructed from a well-formed argument vector, about to run loop()
Init ==
    /\ \E c \in LoopConfigs : ConfigIs(c)
    /\ argv = ValidArgv /\ params = ParsedParams(ValidArgv) /\ exit_status = -1
    /\ Constructed
    /\ pc = "gate"
    /\ LocalsReset

\* the process at the start of main, for any argument vector (no node exists
\* yet: the members hold placeholder values until the constructor runs)
InitMain ==
    /\ \E c \in LoopConfigs : c[6] = 0 /\ c[7] = 0 /\ ConfigIs(c)
    /\ argv \in Argvs /\ params = <<>> /\ exit_status = -1
    /\ Constructed /\ m_pos_x = 0 /\ m_pos_y = 0 /\ m_psi = 0 /\ m_speed = 0
    /\ pc = "main"
    /\ LocalsReset

\* the node after any history of callbacks and cycles that made it ready and
\* moving, at the top of a loop iteration, under any configuration
InitPipeline ==
    /\ \E c \in AllConfigs : c[6] = 0 /\ ConfigIs(c)
    /\ argv = ValidArgv /\ params = ParsedParams(ValidArgv) /\ exit_status = -1
    /\ m_pts_OK = TRUE /\ m_pos_OK = TRUE /\ m_speed_OK = TRUE /\ m_psi_OK = TRUE
    /\ \E path \in Paths :
          /\ m_pts_x = [k \in 1 .. Len(path) |-> path[k][1]]
          /\ m_pts_y = [k \in 1 .. Len(path) |-> path[k][2]]
    /\ \E p \in Positions : m_pos_x = p[1] /\ m_pos_y = p[2]
    /\ m_psi \in {0, 2}
    /\ m_speed = 1
    /\ \E s \in SteerOut, a \in AccOut :
          /\ solver_vars = <<s, a>>
          /\ m_steer = CENTER_IN_DZIK - s
    /\ m_throttle = 0
    /\ pub_angle = <<m_steer>> /\ pub_throttle = <<>>
    /\ pc = "gate"
    /\ v_lat = 0 /\ psi_lat = 0 /\ pos_x_lat = 0 /\ pos_y_lat = 0
    /\ closest_idx = 0
    /\ closest_pts_x = <<>> /\ closest_pts_y = <<>>
    /\ xvals_vec = <<>> /\ yvals_vec = <<>>
    /\ num_steps_OK = 0

----------------------------------------------------------------------------
(* main *)

\* main returning 1 before a node exists
MainFail ==
    /\ exit_status' = 1
    /\ pc' = "exit"
    /\ UNCHANGED <<params, actuators, m_pts_OK, m_pos_OK, m_speed_OK, m_psi_OK>>

\* main up to the call of loop(): parse the arguments, construct the node
Main ==
    /\ pc = "main"
    /\ LET argc == Len(argv) + 1 IN
       \/ /\ argc = num_expected_args
          /\ argv[num_expected_args - 1] \in {"true", "false"}
          /\ params' = ParsedParams(argv)
          /\ exit_status' = exit_status
          /\ m_pts_OK' = FALSE /\ m_pos_OK' = FALSE
          /\ m_speed_OK' = FALSE /\ m_psi_OK' = FALSE
          /\ m_steer' = 0 /\ m_throttle' = 0
          /\ pc' = "gate"
       \/ /\ argc = num_expected_args
          /\ argv[num_expected_args - 1] \notin {"true", "false"}
          /\ MainFail
       \/ /\ argc > num_expected_args
          /\ MainFail
       \/ /\ argc < num_expected_args
          /\ MainFail
    /\ UNCHANGED <<config, argv, m_pts_x, m_pts_y, m_pos_x, m_pos_y, m_psi,
                   m_speed, published, locals>>

----------------------------------------------------------------------------
(* Subscriber callbacks: run by ros::spinOnce() on the loop's own thread *)

\* callbacks delivered by a spinner thread of their own, at any time
InSpinOnce_async == TRUE

\* callbacks are delivered only while loop() is inside ros::spinOnce()
InSpinOnce == pc = "spin"

centerline_cb(points) ==
    /\ InSpinOnce
    /\ m_pts_x' = [k \in 1 .. Len(points) |-> points[k][1]]
    /\ m_pts_y' = [k \in 1 .. Len(points) |-> points[k][2]]
    /\ m_pts_OK' = TRUE
    /\ UNCHANGED <<config, mainvars, m_pos_x, m_pos_y, m_pos_OK, m_psi, m_psi_OK,
                   m_speed, m_speed_OK, actuators, published, pc, locals>>

odom_cb(linear_x) ==
    /\ InSpinOnce
    /\ m_speed' = linear_x
    /\ m_speed_OK' = TRUE
    /\ UNCHANGED <<config, mainvars, m_pts_x, m_pts_y, m_pts_OK, m_pos_x, m_pos_y,
                   m_pos_OK, m_psi, m_psi_OK, actuators, published, pc, locals>>

pf_pose_odom_cb(position, o) ==
    /\ InSpinOnce
    /\ m_pos_x' = position[1]
    /\ m_pos_y' = position[2]
    /\ m_pos_OK' = TRUE
    /\ LET w == o[1]  x == o[2]  y == o[3]  z == o[4]
           siny_cosp == 2 * (w * z + x * y)
           cosy_cosp == 1 - 2 * (y * y + z * z)
       IN m_psi' = Atan2(siny_cosp, cosy_cosp)
    /\ m_psi_OK' = TRUE
    /\ UNCHANGED <<config, mainvars, m_pts_x, m_pts_y, m_pts_OK, m_speed,
                   m_speed_OK, actuators, published, pc, locals>>


----------------------------------------------------------------------------
(* loop() *)

\* the gate without the speed flag
Ready_noSpeed == m_pts_OK /\ m_pos_OK /\ m_psi_OK

\* the gate of a loop iteration
Ready == m_pts_OK /\ m_speed_OK /\ m_pos_OK /\ m_psi_OK

\* while (m_nodehandle.ok()) found false: loop() returns, main returns 0
LoopExit ==
    /\ pc = "gate"
    /\ pc' = "done"
    /\ exit_status' = 0
    /\ UNCHANGED <<config, argv, params, holder, actuators, published, locals>>

\* the else branch: a warning is logged, nothing else happens
LoopSkip ==
    /\ pc = "gate"
    /\ ~Ready
    /\ pc' = "spin"
    /\ UNCHANGED <<config, mainvars, holder, actuators, published, locals>>

\* the latency projection
LoopProject ==
    /\ pc = "gate"
    /\ Ready
    /\ v_lat' = m_speed + m_latency * m_throttle
    /\ psi_lat' = m_psi - m_latency * ((v_lat' * m_steer) \div Lf)
    /\ pos_x_lat' = m_pos_x + m_latency * (v_lat' * Cos(psi_lat'))
    /\ pos_y_lat' = m_pos_y + m_latency * (v_lat' * Sin(psi_lat'))
    /\ pc' = "localize"
    /\ UNCHANGED <<config, mainvars, holder, actuators, published, closest_idx,
                   closest_pts_x, closest_pts_y, xvals_vec, yvals_vec,
                   num_steps_OK, solver_vars>>

\* int idx = (closest_idx + i*STEP_POLY) % m_pts_x.size(), i a size_t
window_idx(c, i, n) == SizeTMod(c + i * STEP_POLY, n)

\* find_closest, the back shift and the window extraction, on a non-empty path
LoopLocalize ==
    /\ pc = "localize"
    /\ Len(m_pts_x) > 0
    /\ closest_idx' = find_closest(m_pts_x, m_pts_y, pos_x_lat, pos_y_lat)
                         - NUM_STEPS_BACK
    /\ closest_pts_x' = [k \in 1 .. NUM_STEPS_POLY |->
                            m_pts_x[window_idx(closest_idx', k - 1, Len(m_pts_x)) + 1]]
    /\ closest_pts_y' = [k \in 1 .. NUM_STEPS_POLY |->
                            m_pts_y[window_idx(closest_idx', k - 1, Len(m_pts_x)) + 1]]
    /\ pc' = "guard"
    /\ UNCHANGED <<config, mainvars, holder, actuators, published, v_lat, psi_lat,
                   pos_x_lat, pos_y_lat, xvals_vec, yvals_vec, num_steps_OK,
                   solver_vars>>

\* the same on an empty path: find_closest returns -1 and the remainder is
\* taken modulo zero, which is undefined: the process is killed by the
\* division (or by the read of an empty vector), or the reads yield anything
LoopLocalizeEmpty ==
    /\ pc = "localize"
    /\ Len(m_pts_x) = 0
    /\ closest_idx' = find_closest(m_pts_x, m_pts_y, pos_x_lat, pos_y_lat)
                         - NUM_STEPS_BACK
    /\ \/ /\ pc' = "crashed"
          /\ UNCHANGED <<closest_pts_x, closest_pts_y>>
       \/ /\ pc' = "guard"
          /\ closest_pts_x' \in [1 .. NUM_STEPS_POLY -> GarbageVals]
          /\ \E g \in GarbageVals : closest_pts_y' = [k \in 1 .. NUM_STEPS_POLY |-> g]
    /\ UNCHANGED <<config, mainvars, holder, actuators, published, v_lat, psi_lat,
                   pos_x_lat, pos_y_lat, xvals_vec, yvals_vec, num_steps_OK,
                   solver_vars>>

\* the guard applied to every point that has a predecessor
guard_applies_early(i) == i > 0

\* if (i > POLY_DEGREE)
guard_applies(i) == i > POLY_DEGREE

\* the comparison with <= in place of <
x_delta_too_low_le(x_rot, prev) == x_rot - prev <= X_DELTA_MIN_VALUE

\* bool x_delta_too_low = (x_rot - xvals_vec[i-1] < X_DELTA_MIN_VALUE)
x_delta_too_low(x_rot, prev) == x_rot - prev < X_DELTA_MIN_VALUE

RECURSIVE transform_from(_, _, _, _, _, _, _, _)
\* the transform-and-guard for loop from index i on; xs, ys are xvals_vec and
\* yvals_vec so far; the result is the two vectors when the loop ends
transform_from(i, cx, cy, px, py, psi, xs, ys) ==
    IF i >= NUM_STEPS_POLY THEN <<xs, ys>>
    ELSE LET dx == cx[i + 1] - px
             dy == cy[i + 1] - py
             x_rot == dx * Cos(psi) + dy * Sin(psi)
             y_rot == (-dx) * Sin(psi) + dy * Cos(psi)
         IN IF guard_applies(i) /\ x_delta_too_low(x_rot, xs[(i - 1) + 1])
            THEN <<xs, ys>>
            ELSE transform_from(i + 1, cx, cy, px, py, psi,
                                Append(xs, x_rot), Append(ys, y_rot))

\* the frame transform with the stability guard
LoopGuard ==
    /\ pc = "guard"
    /\ LET r == transform_from(0, closest_pts_x, closest_pts_y,
                               pos_x_lat, pos_y_lat, psi_lat, <<>>, <<>>)
       IN /\ xvals_vec' = r[1]
          /\ yvals_vec' = r[2]
    /\ pc' = "solve"
    /\ UNCHANGED <<config, mainvars, holder, actuators, published, v_lat, psi_lat,
                   pos_x_lat, pos_y_lat, closest_idx, closest_pts_x, closest_pts_y,
                   num_steps_OK, solver_vars>>

\* polyfit on num_steps_OK points, the solver call (any return value), the
\* steering remap and its publication; the block's locals then go out of
\* scope (num_steps_OK and solver_vars are kept as a record of the two calls)
LoopSolve ==
    /\ pc = "solve"
    /\ num_steps_OK' = Len(xvals_vec)
    /\ \E steering_angle_in_radians \in SteerOut,
          acceleration_in_meters_by_sec2 \in AccOut :
          /\ solver_vars' = <<steering_angle_in_radians,
                              acceleration_in_meters_by_sec2>>
          /\ m_steer' = CENTER_IN_DZIK - steering_angle_in_radians
    /\ pub_angle' = <<m_steer'>>
    /\ v_lat' = 0 /\ psi_lat' = 0 /\ pos_x_lat' = 0 /\ pos_y_lat' = 0
    /\ closest_idx' = 0
    /\ closest_pts_x' = <<>> /\ closest_pts_y' = <<>>
    /\ xvals_vec' = <<>> /\ yvals_vec' = <<>>
    /\ pc' = "spin"
    /\ UNCHANGED <<config, mainvars, holder, m_throttle, pub_throttle>>

\* ros::spinOnce() returns and the next iteration begins
SpinOnceReturn ==
    /\ pc = "spin"
    /\ pc' = "gate"
    /\ num_steps_OK' = 0
    /\ UNCHANGED <<config, mainvars, holder, actuators, published, v_lat, psi_lat,
                   pos_x_lat, pos_y_lat, closest_idx, closest_pts_x, closest_pts_y,
                   xvals_vec, yvals_vec, solver_vars>>

----------------------------------------------------------------------------
(* Specifications *)

Callbacks ==
    \/ \E points \in Paths : centerline_cb(points)
    \/ \E linear_x \in Speeds : odom_cb(linear_x)
    \/ \E position \in Positions, o \in Quaternions : pf_pose_odom_cb(position, o)

Pipeline ==
    \/ LoopProject
    \/ LoopLocalize
    \/ LoopLocalizeEmpty
    \/ LoopGuard
    \/ LoopSolve
    \/ SpinOnceReturn

Next == Callbacks \/ LoopSkip \/ Pipeline \/ LoopExit

\* the node from its construction on
Spec == Init /\ [][Next]_vars

\* the pipeline of a ready node, for every holder state and configuration
SpecPipeline == InitPipeline /\ [][Pipeline]_vars

\* main, for every argument vector
SpecMain == InitMain /\ [][Main]_vars


----------------------------------------------------------------------------
(* Properties *)

\* C1: in every state in which at least one readiness flag is false, the
\* loop is not inside the pipeline, the solver and polyfit have never been
\* called, nothing has been published on /mpc/angle or /mpc/throttle, and
\* m_steer and m_throttle still hold the constructor's values.
C1_NoCommandBeforeReady ==
    ~(m_pts_OK /\ m_speed_OK /\ m_pos_OK /\ m_psi_OK) =>
        /\ pc \notin {"localize", "guard", "solve", "crashed"}
        /\ solver_vars = <<>>
        /\ num_steps_OK = 0
        /\ pub_angle = <<>> /\ pub_throttle = <<>>
        /\ m_steer = 0 /\ m_throttle = 0

\* a skipped iteration with the path and the pose delivered, the speed not
C1_Witness ==
    /\ pc = "spin"
    /\ m_pts_OK /\ m_pos_OK /\ m_psi_OK /\ ~m_speed_OK
    /\ Len(m_pts_x) > 0

\* the window point the claim C2 names: the path point at index
\* (c - NUM_STEPS_BACK + k*STEP_POLY) mod n, mod the mathematical modulo
C2_Expected(pts, c, k) ==
    pts[((c - NUM_STEPS_BACK + k * STEP_POLY) % Len(pts)) + 1]

\* C2: for a non-empty path of length n and a closest index c in 0..n-1, the
\* k-th point of the extracted window is the path point at index
\* (c - NUM_STEPS_BACK + k*STEP_POLY) mod n, for every k in 0..NUM_STEPS_POLY-1.
C2_WindowIsCircular ==
    (pc = "guard" /\ Len(m_pts_x) > 0
        /\ closest_idx + NUM_STEPS_BACK \in 0 .. Len(m_pts_x) - 1) =>
        \A k \in 0 .. NUM_STEPS_POLY - 1 :
            /\ closest_pts_x[k + 1] =
                  C2_Expected(m_pts_x, closest_idx + NUM_STEPS_BACK, k)
            /\ closest_pts_y[k + 1] =
                  C2_Expected(m_pts_y, closest_idx + NUM_STEPS_BACK, k)

\* squared distance from path point j (0-based) to the projected position
C3_Dist(j) ==
    (m_pts_x[j + 1] - pos_x_lat) * (m_pts_x[j + 1] - pos_x_lat)
        + (m_pts_y[j + 1] - pos_y_lat) * (m_pts_y[j + 1] - pos_y_lat)

\* C3: for a non-empty path, find_closest returns an index in 0..n-1 which no
\* path point beats in squared distance and which is the lowest such index.
C3_ClosestIsArgMin ==
    (pc = "guard" /\ Len(m_pts_x) > 0) =>
        LET c == closest_idx + NUM_STEPS_BACK IN
        /\ c \in 0 .. Len(m_pts_x) - 1
        /\ \A j \in 0 .. Len(m_pts_x) - 1 : C3_Dist(c) <= C3_Dist(j)
        /\ \A j \in 0 .. c - 1 : C3_Dist(j) > C3_Dist(c)

\* x and y of window point k (1-based) in the vehicle frame
C4_XLocal(k) ==
    (closest_pts_x[k] - pos_x_lat) * Cos(psi_lat)
        + (closest_pts_y[k] - pos_y_lat) * Sin(psi_lat)
C4_YLocal(k) ==
    (pos_x_lat - closest_pts_x[k]) * Sin(psi_lat)
        + (closest_pts_y[k] - pos_y_lat) * Cos(psi_lat)

\* window position k (0-based) violates the spacing rule
C4_Violates(k) ==
    /\ k > POLY_DEGREE
    /\ C4_XLocal(k + 1) - C4_XLocal(k) < X_DELTA_MIN_VALUE

\* C4: the accepted points are, in order, the transformed window up to the
\* first position k > POLY_DEGREE whose x_local is less than
\* X_DELTA_MIN_VALUE above its predecessor's: exactly k points when there is
\* such a position, the whole window when there is none.
C4_GuardKeepsLongestPrefix ==
    pc = "solve" =>
        LET bad == {k \in 0 .. NUM_STEPS_POLY - 1 : C4_Violates(k)}
            n == Len(xvals_vec)
        IN /\ Len(yvals_vec) = n
           /\ \A k \in 1 .. n : /\ xvals_vec[k] = C4_XLocal(k)
                                /\ yvals_vec[k] = C4_YLocal(k)
           /\ \A k \in 0 .. n - 1 : k \notin bad
           /\ IF bad = {} THEN n = NUM_STEPS_POLY ELSE n \in bad

\* a window truncated at a position after a guarded point was accepted
C4_Witness ==
    /\ pc = "solve"
    /\ Len(m_pts_x) > 0
    /\ Len(xvals_vec) > POLY_DEGREE + 1
    /\ Len(xvals_vec) < NUM_STEPS_POLY

\* C5: once the solver has returned, the last-commanded steering is the
\* steering of its latest return value (as returned, or as remapped for the
\* actuator) and the last-commanded throttle is its acceleration, and a
\* projection made after that return uses that acceleration as a.
C5_LastCommandRecorded ==
    (solver_vars # <<>> /\ Len(m_pts_x) > 0) =>
        /\ m_steer \in {solver_vars[1], CENTER_IN_DZIK - solver_vars[1]}
        /\ m_throttle = solver_vars[2]
        /\ pc = "localize" => v_lat = m_speed + m_latency * solver_vars[2]

\* readiness is monotonic: no step clears a readiness flag
ReadinessMonotonic ==
    [][/\ m_pts_OK => m_pts_OK'
       /\ m_speed_OK => m_speed_OK'
       /\ m_pos_OK => m_pos_OK'
       /\ m_psi_OK => m_psi_OK'
       /\ (pc = "gate" /\ m_pts_OK /\ m_speed_OK /\ m_pos_OK /\ m_psi_OK)
             => pc' \in {"localize", "done"}]_vars

\* C6: while loop() is between its gate and the end of the solver call, no
\* step changes the path, position, heading or speed (nor their flags); and
\* position and heading are always set together.
C6_NoTornState ==
    [][/\ pc \in {"localize", "guard", "solve"} => holder' = holder
       /\ m_pos_OK' = m_psi_OK']_vars

\* a pipeline run in a cycle after an earlier cycle published a command
C6_Witness ==
    /\ pc = "solve"
    /\ pub_angle # <<>>
    /\ Len(m_pts_x) > 1

\* the argument vector main requires: ten numbers and a debug toggle
C7_WellFormed(a) ==
    /\ Len(a) = num_expected_args - 1
    /\ \A k \in 1 .. num_expected_args - 2 : a[k] = "1"
    /\ a[num_expected_args - 1] \in {"true", "false"}

\* C7: main enters loop() only on a well-formed argument vector, and returns
\* non-zero without constructing the node on every other one.
C7_FailFast ==
    pc # "main" =>
        IF C7_WellFormed(argv)
        THEN pc = "gate"
        ELSE pc = "exit" /\ exit_status # 0

\* C8: no step clears a readiness flag, and an iteration that starts with all
\* four flags set takes the Ready branch and carries it through to the
\* solver call and the publication of the steering command.
C8_ReadyStaysReady ==
    [][/\ m_pts_OK => m_pts_OK'
       /\ m_speed_OK => m_speed_OK'
       /\ m_pos_OK => m_pos_OK'
       /\ m_psi_OK => m_psi_OK'
       /\ (pc = "gate" /\ m_pts_OK /\ m_speed_OK /\ m_pos_OK /\ m_psi_OK)
             => pc' \in {"localize", "done"}
       /\ pc = "localize" => pc' = "guard"
       /\ pc = "guard" => pc' = "solve"
       /\ pc = "solve" => (pc' = "spin" /\ pub_angle' # <<>>)]_vars

\* C9: whenever the path flag is set, the stored path is non-empty and its x
\* and y sequences have equal length.
C9_ReadyPathNonEmpty ==
    m_pts_OK => (Len(m_pts_x) >= 1 /\ Len(m_pts_x) = Len(m_pts_y))

\* C10: provided NUM_STEPS_POLY >= POLY_DEGREE+1, the number of points handed
\* to polyfit is at least POLY_DEGREE+1 and at most NUM_STEPS_POLY
\* (num_steps_OK is 0 in an iteration that has not called polyfit).
C10_FitHasEnoughPoints ==
    NUM_STEPS_POLY >= POLY_DEGREE + 1 =>
        /\ pc = "solve" => Len(xvals_vec) \in POLY_DEGREE + 1 .. NUM_STEPS_POLY
        /\ num_steps_OK # 0 => num_steps_OK \in POLY_DEGREE + 1 .. NUM_STEPS_POLY

\* polyfit called on exactly POLY_DEGREE+1 points of a longer window
C10_Witness ==
    /\ pc = "spin"
    /\ num_steps_OK = POLY_DEGREE + 1
    /\ NUM_STEPS_POLY > POLY_DEGREE + 1

============================================================================
